---- MODULE Spec2Model ----
(***************************************************************************)
(* Video pipeline of aknst/videohosting-cw: upload_video, the Celery task  *)
(* process_video, stream_video, get_video_thumbnail and delete_video_by_id *)
(* acting on the upload directory, the Video table and the "videos" queue. *)
(*                                                                         *)
(* Text (header values, content types) is a sequence of one-character      *)
(* strings, so that parsing and formatting are computed, not assumed.      *)
(* A file name is a record [id, suffix, ext]: "{id}{suffix...}{ext}".      *)
(***************************************************************************)
EXTENDS Integers, Sequences, FiniteSets, TLC

\* ---------------------------------------------------------------- bounds
\* Number of upload requests (each draws one fresh uuid4).
MaxUploads == 1
\* Longest file, in bytes, that the streaming specification starts from.
MaxLen == 3
\* Bytes per read. videos.py:23 sets 1024 * 1024; the model reads two bytes at
\* a time from files of a few bytes, so that files shorter than, equal to and
\* longer than one chunk all occur.
CHUNK_SIZE == 2

Byte == {0, 1}

\* ------------------------------------------------------------------ text
DigitChars == <<"0", "1", "2", "3", "4", "5", "6", "7", "8", "9">>

Digits == {DigitChars[i] : i \in 1..10}

DigitVal(c) == (CHOOSE i \in 1..10 : DigitChars[i] = c) - 1

\* The value that stands for Python's None where text is expected.
None == <<"<None>">>

RECURSIVE NatStr(_)
NatStr(n) ==
  IF n < 10 THEN <<DigitChars[n + 1]>>
  ELSE NatStr(n \div 10) \o <<DigitChars[(n % 10) + 1]>>

\* str(n) of a Python int, as the f-strings of stream_video format it.
PyStr(n) == IF n < 0 THEN <<"-">> \o NatStr(0 - n) ELSE NatStr(n)

RECURSIVE LStrip(_)
LStrip(s) == IF s # <<>> /\ Head(s) = " " THEN LStrip(Tail(s)) ELSE s

RECURSIVE RStrip(_)
RStrip(s) ==
  IF s # <<>> /\ s[Len(s)] = " " THEN RStrip(SubSeq(s, 1, Len(s) - 1)) ELSE s

\* str.strip()
Strip(s) == RStrip(LStrip(s))

LowerChar(c) ==
  CASE c = "B" -> "b"
    [] c = "Y" -> "y"
    [] c = "T" -> "t"
    [] c = "E" -> "e"
    [] c = "S" -> "s"
    [] c = "X" -> "x"
    [] OTHER -> c

\* str.lower()
Lower(s) == [i \in 1..Len(s) |-> LowerChar(s[i])]

\* str.split(sep) for a one-character separator: the list of pieces.
RECURSIVE Split(_, _)
Split(s, sep) ==
  IF \A i \in 1..Len(s) : s[i] # sep THEN <<s>>
  ELSE LET i == CHOOSE k \in 1..Len(s) :
                  s[k] = sep /\ \A j \in 1..(k - 1) : s[j] # sep
       IN <<SubSeq(s, 1, i - 1)>> \o Split(SubSeq(s, i + 1, Len(s)), sep)

RECURSIVE DigitsVal(_)
DigitsVal(s) ==
  IF s = <<>> THEN 0
  ELSE 10 * DigitsVal(SubSeq(s, 1, Len(s) - 1)) + DigitVal(s[Len(s)])

\* int(s): surrounding blanks and one sign are accepted, then decimal digits;
\* anything else raises ValueError (ok = FALSE).
PyInt(s) ==
  LET t == Strip(s)
      signed == t # <<>> /\ Head(t) \in {"+", "-"}
      d == IF signed THEN Tail(t) ELSE t
      ok == d # <<>> /\ \A i \in 1..Len(d) : d[i] \in Digits
  IN [ok |-> ok,
      val |-> IF ~ok THEN 0
              ELSE IF signed /\ Head(t) = "-" THEN 0 - DigitsVal(d)
              ELSE DigitsVal(d)]

\* str.startswith(prefix)
StartsWith(s, p) == Len(s) >= Len(p) /\ SubSeq(s, 1, Len(p)) = p

Min(a, b) == IF a < b THEN a ELSE b

\* ------------------------------------------------------------ file names
NoFilename == [id |-> 0, suffix |-> <<>>, ext |-> ""]

\* f"{video_id}{file_ext}"
VideoFilename(vid, ext) == [id |-> vid, suffix |-> <<>>, ext |-> ext]

\* f"{video_id}_thumbnail{thumbnail_ext}"
ThumbnailFilename(vid, ext) ==
  [id |-> vid, suffix |-> <<"_thumbnail">>, ext |-> ext]

\* f"{Path(filename).stem}.mp4"
OutputFilename(f) == [f EXCEPT !.ext = ".mp4"]

\* f"{Path(output_filename).stem}_auto.jpg"
AutoThumbnailFilename(out) ==
  [id |-> out.id, suffix |-> Append(out.suffix, "_auto"), ext |-> ".jpg"]

\* filename.endswith(".mp4")
EndsWithMp4(f) == f.ext = ".mp4"

\* ----------------------------------------------------------------- state
VARIABLES
  videos,   \* the Video table: record id -> row (DOMAIN = the rows that exist)
  dir,      \* UPLOAD_DIR: file name -> inode (DOMAIN = the names that exist)
  inodes,   \* inode -> bytes; an unlinked inode stays readable through open files
  queue,    \* the "videos" Celery queue: file names passed to process_video
  upload,   \* upload_video requests
  worker,   \* process_video runs
  stream,   \* stream_video requests
  thumb,    \* get_video_thumbnail requests
  del,      \* delete_video_by_id requests
  delivered \* the file names process_video has been called with so far

vars ==
  <<videos, dir, inodes, queue, upload, worker, stream, thumb, del, delivered>>

Uploads == 1..MaxUploads
Workers == {"w1"}
Streams == {"s1"}
ThumbReqs == {"t1"}
DelReqs == {"d1"}

\* uuid.uuid4() in create_video (crud.py:74) and in upload_video (videos.py:45):
\* two fresh draws per upload, never equal to any other draw.
RecordUuid(u) == 2 * u

FileUuid(u) == 2 * u - 1

\* Ids a client may ask for: every id a record can have, and one no record has.
RequestIds == {RecordUuid(u) : u \in Uploads} \cup {FileUuid(1)}

Exists(f) == f \in DOMAIN dir

Data(f) == inodes[dir[f]]

\* open(path, "wb") / ffmpeg -y: the name is created, or its inode truncated.
CreateOrTruncate(f) ==
  IF Exists(f)
  THEN /\ inodes' = [inodes EXCEPT ![dir[f]] = <<>>]
       /\ dir' = dir
  ELSE /\ inodes' = Append(inodes, <<>>)
       /\ dir' = [g \in DOMAIN dir \cup {f} |->
                    IF g = f THEN Len(inodes) + 1 ELSE dir[g]]

\* os.remove / Path.unlink: the name goes, the inode stays for open readers.
Unlinked(f) == [g \in DOMAIN dir \ {f} |-> dir[g]]

\* -------------------------------------------------------- stream_video
NoHeaders == [content_range |-> None, accept_ranges |-> None,
              content_length |-> None]

StreamIdle ==
  [pc |-> "idle", id |-> 0, range |-> None, filename |-> NoFilename,
   file_size |-> 0, status |-> 0, headers |-> NoHeaders, start |-> 0,
   end |-> 0, content_length |-> 0, fd |-> 0, pos |-> 0, bytes_to_read |-> 0,
   body |-> <<>>, chunks |-> <<>>, raised |-> FALSE]

\* videos.py:224-225, with > for >=
ClampEndStrict(end, file_size) ==
  IF end > file_size THEN file_size - 1 ELSE end

\* videos.py:224-225: if end >= file_size: end = file_size - 1
ClampEnd(end, file_size) ==
  IF end >= file_size THEN file_size - 1 ELSE end

\* videos.py:220-226 and 239-243: the Range header against the file size.
\* error = an exception escapes (ValueError of the unpacking or of int()).
RangeResponse(range_header, file_size) ==
  LET pieces == Split(Lower(Strip(range_header)), "=")
      range_val == pieces[Len(pieces)]
      parts == Split(range_val, "-")
      start_str == parts[1]
      end_str == parts[2]
      s == IF start_str # <<>> THEN PyInt(start_str) ELSE [ok |-> TRUE, val |-> 0]
      e == IF end_str # <<>> THEN PyInt(end_str)
           ELSE [ok |-> TRUE, val |-> file_size - 1]
      end == ClampEnd(e.val, file_size)
      content_length == end - s.val + 1
  IN IF Len(parts) # 2 \/ ~s.ok \/ ~e.ok
     THEN [error |-> TRUE, start |-> 0, end |-> 0, content_length |-> 0,
           headers |-> NoHeaders]
     ELSE [error |-> FALSE, start |-> s.val, end |-> end,
           content_length |-> content_length,
           headers |->
             [content_range |->
                <<"b", "y", "t", "e", "s", " ">> \o PyStr(s.val) \o <<"-">>
                  \o PyStr(end) \o <<"/">> \o PyStr(file_size),
              accept_ranges |-> <<"b", "y", "t", "e", "s">>,
              content_length |-> PyStr(content_length)]]

\* videos.py:197-201: the request arrives; the record is looked up by id.
StreamGetVideo(s, id, range_header) ==
  /\ stream[s].pc = "idle"
  /\ stream' = [stream EXCEPT ![s] =
       IF id \notin DOMAIN videos
       THEN [@ EXCEPT !.pc = "done", !.id = id, !.range = range_header,
                      !.status = 404]
       ELSE [@ EXCEPT !.pc = "exists", !.id = id, !.range = range_header,
                      !.filename = videos[id].filename]]
  /\ UNCHANGED <<delivered,
               videos, dir, inodes, queue, upload, worker, thumb, del>>

\* videos.py:203-204: file_path.exists()
StreamExists(s) ==
  /\ stream[s].pc = "exists"
  /\ stream' = [stream EXCEPT ![s] =
       IF ~Exists(stream[s].filename)
       THEN [@ EXCEPT !.pc = "done", !.status = 404]
       ELSE [@ EXCEPT !.pc = "getsize"]]
  /\ UNCHANGED <<delivered,
               videos, dir, inodes, queue, upload, worker, thumb, del>>

\* videos.py:206-250: os.path.getsize (FileNotFoundError when the name is
\* gone), then the response is built and its status line and headers are fixed.
StreamGetSize(s) ==
  /\ stream[s].pc = "getsize"
  /\ stream' = [stream EXCEPT ![s] =
       IF ~Exists(stream[s].filename)
       THEN [@ EXCEPT !.pc = "done", !.status = 500, !.raised = TRUE]
       ELSE LET file_size == Len(Data(stream[s].filename)) IN
            IF stream[s].range = None
            THEN [@ EXCEPT !.pc = "open", !.file_size = file_size,
                           !.status = 200, !.content_length = file_size,
                           !.headers = [NoHeaders EXCEPT
                                          !.content_length = PyStr(file_size)]]
            ELSE LET r == RangeResponse(stream[s].range, file_size) IN
                 IF r.error
                 THEN [@ EXCEPT !.pc = "done", !.file_size = file_size,
                                !.status = 500, !.raised = TRUE]
                 ELSE [@ EXCEPT !.pc = "open", !.file_size = file_size,
                                !.status = 206, !.start = r.start,
                                !.end = r.end,
                                !.content_length = r.content_length,
                                !.headers = r.headers]]
  /\ UNCHANGED <<delivered,
               videos, dir, inodes, queue, upload, worker, thumb, del>>

\* videos.py:211 and 229-231: the iterator's first step opens the file (the
\* response has started; FileNotFoundError breaks it off) and seeks.
StreamOpen(s) ==
  /\ stream[s].pc = "open"
  /\ stream' = [stream EXCEPT ![s] =
       IF ~Exists(stream[s].filename)
       THEN [@ EXCEPT !.pc = "done", !.raised = TRUE]
       ELSE [@ EXCEPT !.pc = "read", !.fd = dir[stream[s].filename],
                      !.pos = IF stream[s].range = None THEN 0
                              ELSE stream[s].start,
                      !.bytes_to_read = stream[s].content_length]]
  /\ UNCHANGED <<delivered,
               videos, dir, inodes, queue, upload, worker, thumb, del>>

\* f.read() with no size: everything up to the end of the file
ReadAtToEnd(fd, pos, n) == SubSeq(inodes[fd], pos + 1, Len(inodes[fd]))

\* f.read(n) at offset pos of an open file
ReadAt(fd, pos, n) == SubSeq(inodes[fd], pos + 1, Min(pos + n, Len(inodes[fd])))

\* videos.py:233, without the min: always a whole chunk
ChunkLimitWhole(bytes_to_read) == CHUNK_SIZE

\* videos.py:233: min(CHUNK_SIZE, bytes_to_read)
ChunkLimit(bytes_to_read) == Min(CHUNK_SIZE, bytes_to_read)

\* videos.py:212 (full_iterator) and 232-237 (range_iterator): one pass of
\* the read loop.
StreamRead(s) ==
  /\ stream[s].pc = "read"
  /\ stream' = [stream EXCEPT ![s] =
       IF stream[s].range = None
       THEN LET chunk == ReadAt(stream[s].fd, stream[s].pos, CHUNK_SIZE) IN
            IF chunk = <<>> THEN [@ EXCEPT !.pc = "done"]
            ELSE [@ EXCEPT !.pos = @ + Len(chunk), !.body = @ \o chunk,
                           !.chunks = Append(@, Len(chunk))]
       ELSE IF stream[s].bytes_to_read > 0
       THEN LET chunk == ReadAt(stream[s].fd, stream[s].pos,
                                ChunkLimit(stream[s].bytes_to_read)) IN
            IF chunk = <<>> THEN [@ EXCEPT !.pc = "done"]
            ELSE [@ EXCEPT !.pos = @ + Len(chunk), !.body = @ \o chunk,
                           !.chunks = Append(@, Len(chunk)),
                           !.bytes_to_read = @ - Len(chunk)]
       ELSE [@ EXCEPT !.pc = "done"]]
  /\ UNCHANGED <<delivered,
               videos, dir, inodes, queue, upload, worker, thumb, del>>

\* -------------------------------------------------------- upload_video
Users == {"alice", "bob", "root"}

\* User.is_superuser
Superusers == {"root"}

VideoMp4 == <<"v", "i", "d", "e", "o", "/", "m", "p", "4">>

ImagePng == <<"i", "m", "a", "g", "e", "/", "p", "n", "g">>

TextPlain == <<"t", "e", "x", "t", "/", "p", "l", "a", "i", "n">>

\* thumbnail_file = None
NoThumbnail == [present |-> FALSE, content_type |-> None, ext |-> ""]

\* The bytes a client sends as the video and as the thumbnail.
UploadedVideo == <<1, 0, 1>>

UploadedImage == <<1, 1>>

UploadIdle ==
  [pc |-> "idle", user |-> "", content_type |-> None, ext |-> "",
   thumbnail_file |-> NoThumbnail, filename |-> NoFilename,
   thumbnail_filename |-> NoFilename, fd |-> 0, status |-> 0,
   raised |-> FALSE]

\* videos.py:41 and 55, with the test of the prefix left out
CheckContentTypeLoose(content_type, prefix) ==
  IF content_type = None THEN "raise" ELSE "pass"

\* videos.py:41 and 55: content_type.startswith(prefix); "raise" is the
\* AttributeError of None.startswith, "reject" the HTTPException(400).
CheckContentType(content_type, prefix) ==
  IF content_type = None THEN "raise"
  ELSE IF ~StartsWith(content_type, prefix) THEN "reject"
  ELSE "pass"

\* videos.py:41-47: the declared type of the video is checked, the name drawn.
UploadStart(u, user, content_type, ext, thumbnail_file) ==
  /\ upload[u].pc = "idle"
  /\ LET check == CheckContentType(content_type,
                                   <<"v", "i", "d", "e", "o", "/">>)
         req == [upload[u] EXCEPT !.user = user,
                                  !.content_type = content_type, !.ext = ext,
                                  !.thumbnail_file = thumbnail_file]
     IN upload' = [upload EXCEPT ![u] =
          IF check = "raise"
          THEN [req EXCEPT !.pc = "done", !.status = 500, !.raised = TRUE]
          ELSE IF check = "reject"
          THEN [req EXCEPT !.pc = "done", !.status = 400]
          ELSE [req EXCEPT !.pc = "open",
                           !.filename = VideoFilename(FileUuid(u), ext)]]
  /\ UNCHANGED <<delivered,
               videos, dir, inodes, queue, worker, stream, thumb, del>>

\* videos.py:49: open(filepath, "wb")
UploadOpen(u) ==
  /\ upload[u].pc = "open"
  /\ CreateOrTruncate(upload[u].filename)
  /\ upload' = [upload EXCEPT ![u].pc = "write",
                              ![u].fd = dir'[upload[u].filename]]
  /\ UNCHANGED <<delivered, videos, queue, worker, stream, thumb, del>>

\* A handler that goes on while the body is still in a buffer.
UploadWriteDeferred(u) ==
  /\ upload[u].pc = "write"
  /\ upload' = [upload EXCEPT ![u].pc = "thumbnail", ![u].fd = 0]
  /\ UNCHANGED <<delivered,
               videos, dir, inodes, queue, worker, stream, thumb, del>>

\* videos.py:50-51: the whole body is read, written and the file closed.
UploadWrite(u) ==
  /\ upload[u].pc = "write"
  /\ inodes' = [inodes EXCEPT ![upload[u].fd] = UploadedVideo]
  /\ upload' = [upload EXCEPT ![u].pc = "thumbnail", ![u].fd = 0]
  /\ UNCHANGED <<delivered, videos, dir, queue, worker, stream, thumb, del>>

\* videos.py:53-62: the optional thumbnail is checked and its file opened.
UploadThumbnail(u) ==
  /\ upload[u].pc = "thumbnail"
  /\ LET th == upload[u].thumbnail_file
         check == CheckContentType(th.content_type,
                                   <<"i", "m", "a", "g", "e", "/">>)
         thumbnail_filename == ThumbnailFilename(FileUuid(u), th.ext)
     IN IF ~th.present
        THEN /\ upload' = [upload EXCEPT ![u].pc = "create"]
             /\ UNCHANGED <<dir, inodes>>
        ELSE IF check = "raise"
        THEN /\ upload' = [upload EXCEPT ![u].pc = "done", ![u].status = 500,
                                         ![u].raised = TRUE]
             /\ UNCHANGED <<dir, inodes>>
        ELSE IF check = "reject"
        THEN /\ upload' = [upload EXCEPT ![u].pc = "done", ![u].status = 400]
             /\ UNCHANGED <<dir, inodes>>
        ELSE /\ CreateOrTruncate(thumbnail_filename)
             /\ upload' = [upload EXCEPT
                             ![u].pc = "write_thumbnail",
                             ![u].thumbnail_filename = thumbnail_filename,
                             ![u].fd = dir'[thumbnail_filename]]
  /\ UNCHANGED <<delivered, videos, queue, worker, stream, thumb, del>>

\* videos.py:63-64
UploadWriteThumbnail(u) ==
  /\ upload[u].pc = "write_thumbnail"
  /\ inodes' = [inodes EXCEPT ![upload[u].fd] = UploadedImage]
  /\ upload' = [upload EXCEPT ![u].pc = "create", ![u].fd = 0]
  /\ UNCHANGED <<delivered, videos, dir, queue, worker, stream, thumb, del>>

\* crud.py:67-87: the row is added and committed; is_processed takes the
\* column default (models.py:106).
create_video(id, filename, thumbnail_file, owner_id) ==
  [g \in DOMAIN videos \cup {id} |->
     IF g = id
     THEN [filename |-> filename, thumbnail_filename |-> thumbnail_file,
           owner_id |-> owner_id, is_processed |-> FALSE]
     ELSE videos[g]]

\* videos.py:66-79
UploadCreate(u) ==
  /\ upload[u].pc = "create"
  /\ videos' = create_video(RecordUuid(u), upload[u].filename,
                            upload[u].thumbnail_filename, upload[u].user)
  /\ upload' = [upload EXCEPT ![u].pc = "enqueue"]
  /\ UNCHANGED <<delivered, dir, inodes, queue, worker, stream, thumb, del>>

\* A handler that sends the job a second time.
UploadEnqueueTwice(u) ==
  /\ upload[u].pc = "enqueue"
  /\ queue' = Append(Append(queue, upload[u].filename), upload[u].filename)
  /\ upload' = [upload EXCEPT ![u].pc = "done", ![u].status = 200]
  /\ UNCHANGED <<delivered, videos, dir, inodes, worker, stream, thumb, del>>

\* videos.py:81-82: process_video.delay(filename), then the 200 response.
UploadEnqueue(u) ==
  /\ upload[u].pc = "enqueue"
  /\ queue' = Append(queue, upload[u].filename)
  /\ upload' = [upload EXCEPT ![u].pc = "done", ![u].status = 200]
  /\ UNCHANGED <<delivered, videos, dir, inodes, worker, stream, thumb, del>>

\* videos.py:81: process_video.delay(filename) raises when the broker cannot
\* be reached; nothing catches it, the request fails with the row committed.
UploadEnqueueFails(u) ==
  /\ upload[u].pc = "enqueue"
  /\ upload' = [upload EXCEPT ![u].pc = "done", ![u].status = 500,
                              ![u].raised = TRUE]
  /\ UNCHANGED <<delivered,
               videos, dir, inodes, queue, worker, stream, thumb, del>>

\* videos.py:26-82: the server process dies inside the handler; what it has
\* written to the disk and committed to the database stays.
UploadCrash(u) ==
  /\ upload[u].pc \notin {"idle", "done", "crashed"}
  /\ upload' = [upload EXCEPT ![u].pc = "crashed", ![u].fd = 0]
  /\ UNCHANGED <<delivered,
               videos, dir, inodes, queue, worker, stream, thumb, del>>

\* ------------------------------------------------- process_video (worker)
\* What ffmpeg makes of its input: the transcoded video, the extracted frame.
Transcoded(data) == <<0>> \o data

Frame(data) == <<0>>

WorkerIdle ==
  [pc |-> "idle", filename |-> NoFilename, output_filename |-> NoFilename,
   in_fd |-> 0, out_fd |-> 0, video |-> 0, result |-> "", crashed_at |-> "",
   thumbnail_attempted |-> FALSE]

\* The rows select(Video).where(Video.filename == f) matches.
SelectByFilename(f) == {id \in DOMAIN videos : videos[id].filename = f}

First(S) == CHOOSE id \in S : \A other \in S : id <= other

\* A task that transcodes whatever the name of its input.
WorkerStartAlwaysTranscodes(w) ==
  /\ worker[w].pc = "idle"
  /\ queue # <<>>
  /\ queue' = Tail(queue)
  /\ worker' = [worker EXCEPT ![w] =
       [WorkerIdle EXCEPT
          !.pc = "ffmpeg",
          !.filename = Head(queue),
          !.output_filename = OutputFilename(Head(queue))]]
  /\ delivered' = delivered \cup {Head(queue)}
  /\ UNCHANGED <<videos, dir, inodes, upload, stream, thumb, del>>

\* tasks/video.py:14-22 and 58-59: a job is taken off the queue (Celery
\* acknowledges it on receipt) and the names are computed.
WorkerStart(w) ==
  /\ worker[w].pc = "idle"
  /\ queue # <<>>
  /\ queue' = Tail(queue)
  /\ worker' = [worker EXCEPT ![w] =
       [WorkerIdle EXCEPT
          !.pc = IF ~EndsWithMp4(Head(queue)) THEN "ffmpeg"
                 ELSE "thumbnail_select",
          !.filename = Head(queue),
          !.output_filename = OutputFilename(Head(queue))]]
  /\ delivered' = delivered \cup {Head(queue)}
  /\ UNCHANGED <<videos, dir, inodes, upload, stream, thumb, del>>

\* A failure path that clears the output away when ffmpeg cannot start.
WorkerFfmpegOpenCleansUp(w) ==
  /\ worker[w].pc = "ffmpeg"
  /\ IF ~Exists(worker[w].filename)
     THEN /\ worker' = [worker EXCEPT ![w].pc = "idle",
                                      ![w].result = "transcode_failed"]
          /\ dir' = Unlinked(worker[w].output_filename)
          /\ UNCHANGED inodes
     ELSE /\ CreateOrTruncate(worker[w].output_filename)
          /\ worker' = [worker EXCEPT
                          ![w].pc = "ffmpeg_run",
                          ![w].in_fd = dir[worker[w].filename],
                          ![w].out_fd = dir'[worker[w].output_filename]]
  /\ UNCHANGED <<delivered, videos, queue, upload, stream, thumb, del>>

\* tasks/video.py:24-41, 55-57: ffmpeg opens its input (and exits non-zero
\* when it is missing) and creates or truncates its output (-y).
WorkerFfmpegOpen(w) ==
  /\ worker[w].pc = "ffmpeg"
  /\ IF ~Exists(worker[w].filename)
     THEN /\ worker' = [worker EXCEPT ![w].pc = "idle",
                                      ![w].result = "transcode_failed"]
          /\ UNCHANGED <<dir, inodes>>
     ELSE /\ CreateOrTruncate(worker[w].output_filename)
          /\ worker' = [worker EXCEPT
                          ![w].pc = "ffmpeg_run",
                          ![w].in_fd = dir[worker[w].filename],
                          ![w].out_fd = dir'[worker[w].output_filename]]
  /\ UNCHANGED <<delivered, videos, queue, upload, stream, thumb, del>>

\* An error handler that clears the input away when ffmpeg has failed.
WorkerFfmpegExitCleansUp(w, ok) ==
  /\ worker[w].pc = "ffmpeg_run"
  /\ IF ok
     THEN /\ inodes' = [inodes EXCEPT ![worker[w].out_fd] =
                          Transcoded(inodes[worker[w].in_fd])]
          /\ worker' = [worker EXCEPT ![w].pc = "commit", ![w].in_fd = 0,
                                      ![w].out_fd = 0]
          /\ UNCHANGED dir
     ELSE /\ worker' = [worker EXCEPT ![w].pc = "idle", ![w].in_fd = 0,
                                      ![w].out_fd = 0,
                                      ![w].result = "transcode_failed"]
          /\ dir' = Unlinked(worker[w].filename)
          /\ UNCHANGED inodes
  /\ UNCHANGED <<delivered, videos, queue, upload, stream, thumb, del>>

\* tasks/video.py:24-41, 55-57: ffmpeg exits; with status 0 the output is
\* complete, otherwise CalledProcessError is caught and the task returns.
WorkerFfmpegExit(w, ok) ==
  /\ worker[w].pc = "ffmpeg_run"
  /\ IF ok
     THEN /\ inodes' = [inodes EXCEPT ![worker[w].out_fd] =
                          Transcoded(inodes[worker[w].in_fd])]
          /\ worker' = [worker EXCEPT ![w].pc = "commit", ![w].in_fd = 0,
                                      ![w].out_fd = 0]
     ELSE /\ worker' = [worker EXCEPT ![w].pc = "idle", ![w].in_fd = 0,
                                      ![w].out_fd = 0,
                                      ![w].result = "transcode_failed"]
          /\ UNCHANGED inodes
  /\ UNCHANGED <<delivered, videos, dir, queue, upload, stream, thumb, del>>

\* tasks/video.py:44-51 with the update lost: the task goes on to the unlink
\* while the row still names the input.
WorkerCommitLost(w) ==
  /\ worker[w].pc = "commit"
  /\ worker' = [worker EXCEPT ![w].pc = "unlink"]
  /\ UNCHANGED <<delivered,
               videos, dir, inodes, queue, upload, stream, thumb, del>>

\* tasks/video.py:44-51: the row whose filename is the input gets the output
\* name, in one committed transaction.
WorkerCommit(w) ==
  /\ worker[w].pc = "commit"
  /\ LET found == SelectByFilename(worker[w].filename) IN
     videos' = IF found # {}
               THEN [videos EXCEPT ![First(found)].filename =
                                      worker[w].output_filename]
               ELSE videos
  /\ worker' = [worker EXCEPT ![w].pc = "unlink"]
  /\ UNCHANGED <<delivered, dir, inodes, queue, upload, stream, thumb, del>>

\* tasks/video.py:53: input_path.unlink(missing_ok=True)
WorkerUnlink(w) ==
  /\ worker[w].pc = "unlink"
  /\ dir' = Unlinked(worker[w].filename)
  /\ worker' = [worker EXCEPT ![w].pc = "thumbnail_select"]
  /\ UNCHANGED <<delivered, videos, inodes, queue, upload, stream, thumb, del>>

\* A thumbnail step that does not look whether the row has a thumbnail.
WorkerThumbnailSelectAlways(w) ==
  /\ worker[w].pc = "thumbnail_select"
  /\ LET found == SelectByFilename(worker[w].output_filename) IN
     worker' = [worker EXCEPT ![w] =
       IF found # {}
       THEN [@ EXCEPT !.pc = "thumbnail_ffmpeg", !.video = First(found)]
       ELSE [@ EXCEPT !.pc = "idle", !.result = "finished"]]
  /\ UNCHANGED <<delivered,
               videos, dir, inodes, queue, upload, stream, thumb, del>>

\* tasks/video.py:62-68, 93: the row is looked up by the output name.
WorkerThumbnailSelect(w) ==
  /\ worker[w].pc = "thumbnail_select"
  /\ LET found == SelectByFilename(worker[w].output_filename) IN
     worker' = [worker EXCEPT ![w] =
       IF found # {} /\ videos[First(found)].thumbnail_filename = NoFilename
       THEN [@ EXCEPT !.pc = "thumbnail_ffmpeg", !.video = First(found)]
       ELSE [@ EXCEPT !.pc = "idle", !.result = "finished"]]
  /\ UNCHANGED <<delivered,
               videos, dir, inodes, queue, upload, stream, thumb, del>>

\* tasks/video.py:70-84, 90-91: ffmpeg extracts one frame of output_path;
\* a non-zero exit is logged and the task finishes.
WorkerThumbnailFfmpeg(w, ok) ==
  /\ worker[w].pc = "thumbnail_ffmpeg"
  /\ LET thumbnail_filename == AutoThumbnailFilename(worker[w].output_filename)
     IN IF ~Exists(worker[w].output_filename)
        THEN /\ worker' = [worker EXCEPT ![w].pc = "idle",
                                         ![w].result = "finished",
                                         ![w].thumbnail_attempted = TRUE]
             /\ UNCHANGED <<dir, inodes>>
        ELSE /\ dir' = [g \in DOMAIN dir \cup {thumbnail_filename} |->
                          IF g = thumbnail_filename /\ ~Exists(g)
                          THEN Len(inodes) + 1 ELSE dir[g]]
             /\ inodes' =
                  LET data == IF ok THEN Frame(Data(worker[w].output_filename))
                              ELSE <<>>
                  IN IF Exists(thumbnail_filename)
                     THEN [inodes EXCEPT ![dir[thumbnail_filename]] = data]
                     ELSE Append(inodes, data)
             /\ worker' = [worker EXCEPT ![w] =
                  IF ok THEN [@ EXCEPT !.pc = "thumbnail_commit",
                                       !.thumbnail_attempted = TRUE]
                  ELSE [@ EXCEPT !.pc = "idle", !.result = "finished",
                                 !.thumbnail_attempted = TRUE]]
  /\ UNCHANGED <<delivered, videos, queue, upload, stream, thumb, del>>

\* tasks/video.py:86-88, 93: the loaded row gets the thumbnail name; the
\* UPDATE of a row that is gone raises (StaleDataError) and the task fails.
WorkerThumbnailCommit(w) ==
  /\ worker[w].pc = "thumbnail_commit"
  /\ IF worker[w].video \in DOMAIN videos
     THEN /\ videos' = [videos EXCEPT ![worker[w].video].thumbnail_filename =
                          AutoThumbnailFilename(worker[w].output_filename)]
          /\ worker' = [worker EXCEPT ![w].pc = "idle",
                                      ![w].result = "finished"]
     ELSE /\ worker' = [worker EXCEPT ![w].pc = "idle",
                                      ![w].result = "raised"]
          /\ UNCHANGED videos
  /\ UNCHANGED <<delivered, dir, inodes, queue, upload, stream, thumb, del>>

\* The worker process dies in the middle of a task; the job was acknowledged
\* on receipt (celery_app.py sets no acks_late), so it is not delivered again.
WorkerCrash(w) ==
  /\ worker[w].pc \notin {"idle", "crashed"}
  /\ worker' = [worker EXCEPT ![w].pc = "crashed",
                              ![w].crashed_at = worker[w].pc,
                              ![w].in_fd = 0, ![w].out_fd = 0]
  /\ UNCHANGED <<delivered,
               videos, dir, inodes, queue, upload, stream, thumb, del>>

\* A new worker process takes the place of the dead one.
WorkerRestart(w) ==
  /\ worker[w].pc = "crashed"
  /\ worker' = [worker EXCEPT ![w] = [WorkerIdle EXCEPT !.result = "crashed"]]
  /\ UNCHANGED <<delivered,
               videos, dir, inodes, queue, upload, stream, thumb, del>>

\* ------------------------------------------------- get_video_thumbnail
ThumbIdle ==
  [pc |-> "idle", id |-> 0, thumbnail_filename |-> NoFilename, status |-> 0,
   body |-> <<>>, raised |-> FALSE]

\* videos.py:258-265
ThumbGetVideo(t, id) ==
  /\ thumb[t].pc = "idle"
  /\ thumb' = [thumb EXCEPT ![t] =
       IF id \notin DOMAIN videos
       THEN [@ EXCEPT !.pc = "done", !.id = id, !.status = 404]
       ELSE IF videos[id].thumbnail_filename = NoFilename
       THEN [@ EXCEPT !.pc = "done", !.id = id, !.status = 404]
       ELSE [@ EXCEPT !.pc = "exists", !.id = id,
                      !.thumbnail_filename = videos[id].thumbnail_filename]]
  /\ UNCHANGED <<delivered,
               videos, dir, inodes, queue, upload, worker, stream, del>>

\* videos.py:266-267
ThumbExists(t) ==
  /\ thumb[t].pc = "exists"
  /\ thumb' = [thumb EXCEPT ![t] =
       IF ~Exists(thumb[t].thumbnail_filename)
       THEN [@ EXCEPT !.pc = "done", !.status = 404]
       ELSE [@ EXCEPT !.pc = "respond"]]
  /\ UNCHANGED <<delivered,
               videos, dir, inodes, queue, upload, worker, stream, del>>

\* videos.py:269: FileResponse stats and sends the file; a missing file raises.
ThumbRespond(t) ==
  /\ thumb[t].pc = "respond"
  /\ thumb' = [thumb EXCEPT ![t] =
       IF ~Exists(thumb[t].thumbnail_filename)
       THEN [@ EXCEPT !.pc = "done", !.status = 500, !.raised = TRUE]
       ELSE [@ EXCEPT !.pc = "done", !.status = 200,
                      !.body = Data(thumb[t].thumbnail_filename)]]
  /\ UNCHANGED <<delivered,
               videos, dir, inodes, queue, upload, worker, stream, del>>

\* -------------------------------------------------- delete_video_by_id
DelIdle ==
  [pc |-> "idle", id |-> 0, user |-> "", filename |-> NoFilename,
   status |-> 0]

\* A handler that lets every signed-in user go on.
DeleteGetVideoUnchecked(d, id, user) ==
  /\ del[d].pc = "idle"
  /\ del' = [del EXCEPT ![d] =
       IF id \notin DOMAIN videos
       THEN [@ EXCEPT !.pc = "done", !.id = id, !.user = user, !.status = 404]
       ELSE [@ EXCEPT !.pc = "remove", !.id = id, !.user = user,
                      !.filename = videos[id].filename]]
  /\ UNCHANGED <<delivered,
               videos, dir, inodes, queue, upload, worker, stream, thumb>>

\* videos.py:276-280: the row is loaded; only its owner or a superuser goes on.
DeleteGetVideo(d, id, user) ==
  /\ del[d].pc = "idle"
  /\ del' = [del EXCEPT ![d] =
       IF id \notin DOMAIN videos
       THEN [@ EXCEPT !.pc = "done", !.id = id, !.user = user, !.status = 404]
       ELSE IF videos[id].owner_id # user /\ user \notin Superusers
       THEN [@ EXCEPT !.pc = "done", !.id = id, !.user = user, !.status = 403]
       ELSE [@ EXCEPT !.pc = "remove", !.id = id, !.user = user,
                      !.filename = videos[id].filename]]
  /\ UNCHANGED <<delivered,
               videos, dir, inodes, queue, upload, worker, stream, thumb>>

\* videos.py:281-284: os.remove of the loaded row's file, a missing file passes.
DeleteRemove(d) ==
  /\ del[d].pc = "remove"
  /\ dir' = Unlinked(del[d].filename)
  /\ del' = [del EXCEPT ![d].pc = "delete"]
  /\ UNCHANGED <<delivered,
               videos, inodes, queue, upload, worker, stream, thumb>>

\* crud.py:170-177: the row is deleted if it is still there.
delete_video(id) == [g \in DOMAIN videos \ {id} |-> videos[g]]

\* videos.py:285-286
DeleteRecord(d) ==
  /\ del[d].pc = "delete"
  /\ videos' = delete_video(del[d].id)
  /\ del' = [del EXCEPT ![d].pc = "done", ![d].status = 200]
  /\ UNCHANGED <<delivered, dir, inodes, queue, upload, worker, stream, thumb>>

\* ------------------------------------------------------- specifications
\* What clients send.
ContentTypes == {VideoMp4, TextPlain, None}

Exts == {".avi", ".mp4"}

ThumbnailFiles ==
  {NoThumbnail,
   [present |-> TRUE, content_type |-> ImagePng, ext |-> ".png"],
   [present |-> TRUE, content_type |-> TextPlain, ext |-> ".png"]}

\* "bytes=" start "-" end
RangeHeader(start_text, end_text) ==
  <<"b", "y", "t", "e", "s", "=">> \o start_text \o <<"-">> \o end_text

\* Range headers sent while the other handlers run.
SomeRanges == {None, RangeHeader(PyStr(1), PyStr(2))}

\* The whole application, starting empty.
Init ==
  /\ videos = <<>>
  /\ dir = <<>>
  /\ inodes = <<>>
  /\ queue = <<>>
  /\ upload = [u \in Uploads |-> UploadIdle]
  /\ worker = [w \in Workers |-> WorkerIdle]
  /\ stream = [s \in Streams |-> StreamIdle]
  /\ thumb = [t \in ThumbReqs |-> ThumbIdle]
  /\ del = [d \in DelReqs |-> DelIdle]
  /\ delivered = {}

\* Upload requests are numbered in the order they arrive.
UploadNext ==
  \E u \in Uploads :
    \/ /\ IF u = 1 THEN TRUE ELSE upload[u - 1].pc # "idle"
       /\ \E ct \in ContentTypes, ext \in Exts, th \in ThumbnailFiles :
            UploadStart(u, "alice", ct, ext, th)
    \/ UploadOpen(u)
    \/ UploadWrite(u)
    \/ UploadThumbnail(u)
    \/ UploadWriteThumbnail(u)
    \/ UploadCreate(u)
    \/ UploadEnqueue(u)

WorkerNext ==
  \E w \in Workers :
    \/ WorkerStart(w)
    \/ WorkerFfmpegOpen(w)
    \/ \E ok \in BOOLEAN : WorkerFfmpegExit(w, ok)
    \/ WorkerCommit(w)
    \/ WorkerUnlink(w)
    \/ WorkerThumbnailSelect(w)
    \/ \E ok \in BOOLEAN : WorkerThumbnailFfmpeg(w, ok)
    \/ WorkerThumbnailCommit(w)
    \/ WorkerCrash(w)
    \/ WorkerRestart(w)

StreamSteps(s) ==
  \/ StreamExists(s)
  \/ StreamGetSize(s)
  \/ StreamOpen(s)
  \/ StreamRead(s)

StreamNext ==
  \E s \in Streams :
    \/ \E id \in RequestIds, h \in SomeRanges : StreamGetVideo(s, id, h)
    \/ StreamSteps(s)

ThumbNext ==
  \E t \in ThumbReqs :
    \/ \E id \in RequestIds : ThumbGetVideo(t, id)
    \/ ThumbExists(t)
    \/ ThumbRespond(t)

DeleteNext ==
  \E d \in DelReqs :
    \/ \E id \in RequestIds, user \in Users : DeleteGetVideo(d, id, user)
    \/ DeleteRemove(d)
    \/ DeleteRecord(d)

Next == UploadNext \/ WorkerNext \/ StreamNext \/ ThumbNext \/ DeleteNext

Spec == Init /\ [][Next]_vars

\* Ingestion and playback without the delete endpoint: upload_video, the
\* worker and stream_video.
NextPipeline == UploadNext \/ WorkerNext \/ StreamNext

SpecPipeline == Init /\ [][NextPipeline]_vars

\* stream_video alone, against one stored video of any content and any Range
\* header: the state after an .mp4 upload was processed and no frame could be
\* extracted.
FileContents == UNION {[1..n -> Byte] : n \in 0..MaxLen}

StartTexts == {<<>>} \cup {PyStr(n) : n \in 0..(MaxLen + 1)}

EndTexts == {<<>>} \cup {PyStr(n) : n \in 0..(MaxLen + 1) \cup {MaxLen + 10}}

OddRanges ==
  {<<>>,
   <<"b", "y", "t", "e", "s">>,
   <<"b", "y", "t", "e", "s", "=">>,
   <<"b", "y", "t", "e", "s", "=", "x">>,
   <<"b", "y", "t", "e", "s", "=", "1">>,
   <<"b", "y", "t", "e", "s", "=", "x", "-", "1">>,
   <<"b", "y", "t", "e", "s", "=", "0", "-", "x">>,
   <<"b", "y", "t", "e", "s", "=", "0", "-", "1", "-", "2">>,
   <<"b", "y", "t", "e", "s", "=", "0", "-", "0", ",", "1", "-", "1">>,
   <<"b", "y", "t", "e", "s", "=", " ", "1", " ", "-", " ", "2", " ">>,
   <<"b", "y", "t", "e", "s", "=", "+", "1", "-", "2">>,
   <<" ", "B", "Y", "T", "E", "S", "=", "0", "-", "1", " ">>,
   <<"0", "-", "1">>}

AllRanges ==
  {None} \cup OddRanges
    \cup {RangeHeader(st, en) : st \in StartTexts, en \in EndTexts}

StoredFilename == VideoFilename(FileUuid(1), ".mp4")

InitStream ==
  /\ videos = (RecordUuid(1) :> [filename |-> StoredFilename,
                                 thumbnail_filename |-> NoFilename,
                                 owner_id |-> "alice",
                                 is_processed |-> FALSE])
  /\ dir = (StoredFilename :> 1)
  /\ \E data \in FileContents : inodes = <<data>>
  /\ queue = <<>>
  /\ upload = [u \in Uploads |->
       IF u = 1
       THEN [UploadIdle EXCEPT !.pc = "done", !.user = "alice",
                               !.content_type = VideoMp4, !.ext = ".mp4",
                               !.filename = StoredFilename, !.status = 200]
       ELSE UploadIdle]
  /\ worker = [w \in Workers |-> [WorkerIdle EXCEPT !.result = "finished"]]
  /\ stream = [s \in Streams |-> StreamIdle]
  /\ thumb = [t \in ThumbReqs |-> ThumbIdle]
  /\ del = [d \in DelReqs |-> DelIdle]
  /\ delivered = {}

NextStream ==
  \E s \in Streams :
    \/ \E id \in RequestIds, h \in AllRanges : StreamGetVideo(s, id, h)
    \/ StreamSteps(s)

SpecStream == InitStream /\ [][NextStream]_vars

\* Uploads that can fail half way (broker down, server killed), with the
\* worker.
UploadFaultNext ==
  \E u \in Uploads :
    \/ UploadEnqueueFails(u)
    \/ UploadCrash(u)

NextIngest == UploadNext \/ UploadFaultNext \/ WorkerNext

SpecIngest == Init /\ [][NextIngest]_vars

\* A handler that is not killed runs on; a worker that is up takes the next
\* job and runs it on.
UploadRuns(u) ==
  \/ UploadOpen(u)
  \/ UploadWrite(u)
  \/ UploadThumbnail(u)
  \/ UploadWriteThumbnail(u)
  \/ UploadCreate(u)
  \/ UploadEnqueue(u)

WorkerRuns(w) ==
  \/ WorkerStart(w)
  \/ WorkerFfmpegOpen(w)
  \/ \E ok \in BOOLEAN : WorkerFfmpegExit(w, ok)
  \/ WorkerCommit(w)
  \/ WorkerUnlink(w)
  \/ WorkerThumbnailSelect(w)
  \/ \E ok \in BOOLEAN : WorkerThumbnailFfmpeg(w, ok)
  \/ WorkerThumbnailCommit(w)
  \/ WorkerRestart(w)

FairIngest ==
  /\ \A u \in Uploads : WF_vars(UploadRuns(u))
  /\ \A w \in Workers : WF_vars(WorkerRuns(w))

SpecIngestFair == Init /\ [][NextIngest]_vars /\ FairIngest

\* tasks/video.py:13-14, 55-57, 93: what Celery records for a run of the task:
\* SUCCESS when the function returned, also by the return of the except
\* branch; FAILURE when an exception left it; nothing while it runs or when
\* its process died.
TaskState(run) ==
  IF run.pc # "idle" THEN ""
  ELSE IF run.result \in {"finished", "transcode_failed"} THEN "SUCCESS"
  ELSE IF run.result = "raised" THEN "FAILURE"
  ELSE ""

\* The job of a finished upload is delivered once more, after the run before
\* it has ended or its worker has died and come back.
Replay(u) ==
  /\ upload[u].pc = "done"
  /\ upload[u].status = 200
  /\ queue = <<>>
  /\ \A w \in Workers : worker[w].pc = "idle"
  /\ queue' = <<upload[u].filename>>
  /\ UNCHANGED <<delivered,
               videos, dir, inodes, upload, worker, stream, thumb, del>>

ReplayNext == \E u \in Uploads : Replay(u)

NextReplay == UploadNext \/ WorkerNext \/ ReplayNext

SpecReplay == Init /\ [][NextReplay]_vars

\* Uploads, the worker and the delete endpoint, without the readers.
NextDelete == UploadNext \/ WorkerNext \/ DeleteNext

SpecDelete == Init /\ [][NextDelete]_vars

\* ---------------------------------------------------------------- claims
\* The requests that have built their response (status line and headers).
Responded(r) == r.pc \in {"open", "read", "done"}

\* The file a request's record designates.
RecordData(r) == Data(videos[r.id].filename)

\* What upload request u may have left behind: a file, a row, a job.
NoTraceOf(u) ==
  /\ \A f \in DOMAIN dir : f.id # FileUuid(u)
  /\ RecordUuid(u) \notin DOMAIN videos
  /\ \A i \in DOMAIN queue : queue[i].id # FileUuid(u)
  /\ \A w \in Workers : worker[w].filename.id # FileUuid(u)

\* C1: every Video row names, as its filename, a file that exists in the
\* upload directory, in every reachable state of uploads, worker runs, streams
\* and deletes.
C1_FilenameAlwaysExists ==
  \A id \in DOMAIN videos : Exists(videos[id].filename)

\* The worker is between the commit of the new filename and the unlink of the
\* input, running or dead.
BetweenCommitAndUnlink(w) ==
  \/ worker[w].pc = "unlink"
  \/ worker[w].pc = "crashed" /\ worker[w].crashed_at = "unlink"

\* What a finished stream of the transcoded upload must have delivered.
ServedTranscoded(r) ==
  /\ ~r.raised
  /\ IF r.range = None
     THEN r.status = 200 /\ r.body = Transcoded(UploadedVideo)
     ELSE r.status = 206
          /\ r.body = SubSeq(Transcoded(UploadedVideo), r.start + 1, r.end + 1)

\* C2: once a process_video run has transcoded, the row names the output
\* before the input is unlinked: between the commit and the unlink, also when
\* the worker died there, no row names the input, a row names the output, the
\* output exists complete, the input is still on disk as the only leftover of
\* the run, and a stream that resolved the output name is served it whole.
C2_CommitBeforeUnlink ==
  \A w \in Workers :
    BetweenCommitAndUnlink(w) =>
      /\ SelectByFilename(worker[w].filename) = {}
      /\ SelectByFilename(worker[w].output_filename) # {}
      /\ Exists(worker[w].output_filename)
      /\ Data(worker[w].output_filename) = Transcoded(UploadedVideo)
      /\ Exists(worker[w].filename)
      /\ \A s \in Streams :
           (stream[s].filename = worker[w].output_filename
              /\ stream[s].pc = "done") => ServedTranscoded(stream[s])

C2_Witness ==
  \E w \in Workers, s \in Streams :
    /\ worker[w].pc = "crashed"
    /\ worker[w].crashed_at = "unlink"
    /\ stream[s].pc = "done"
    /\ stream[s].filename = worker[w].output_filename
    /\ stream[s].status = 200
    /\ stream[s].body = Transcoded(UploadedVideo)

\* C3: a stream never breaks on a missing file and never delivers fewer bytes
\* than the Content-Length it declared, however its steps interleave with the
\* worker's commit and unlink.
C3_StreamSurvivesReplacement ==
  \A s \in Streams :
    /\ ~stream[s].raised
    /\ (stream[s].pc = "done" /\ stream[s].status \in {200, 206})
         => Len(stream[s].body) = stream[s].content_length

\* C4: a Range bytes=a-b with 0 <= a <= b < n on a file of n bytes is answered
\* 206 with Content-Range "bytes a-b/n", Accept-Ranges "bytes", Content-Length
\* b-a+1, and a body that is bytes a..b of the file.
C4_ValidRangeServed ==
  \A s \in Streams : \A a \in 0..MaxLen, b \in 0..MaxLen :
    LET r == stream[s] IN
    (/\ r.id \in DOMAIN videos
     /\ r.range = RangeHeader(PyStr(a), PyStr(b))
     /\ a <= b
     /\ b < Len(RecordData(r))
     /\ Responded(r))
    => /\ r.status = 206
       /\ r.headers.content_range =
            <<"b", "y", "t", "e", "s", " ">> \o PyStr(a) \o <<"-">>
              \o PyStr(b) \o <<"/">> \o PyStr(Len(RecordData(r)))
       /\ r.headers.accept_ranges = <<"b", "y", "t", "e", "s">>
       /\ r.headers.content_length = PyStr(b - a + 1)
       /\ r.pc = "done" =>
            ~r.raised /\ r.body = SubSeq(RecordData(r), a + 1, b + 1)

C4_Witness ==
  \E s \in Streams :
    /\ stream[s].pc = "done"
    /\ stream[s].range = RangeHeader(PyStr(0), PyStr(2))
    /\ stream[s].status = 206
    /\ Len(stream[s].body) = 3
    /\ Len(stream[s].chunks) = 2

\* C5: without a Range header, a record whose file exists is answered 200 with
\* Content-Length the size of the file and the whole file as the body, in
\* chunks of at most CHUNK_SIZE bytes.
C5_FullContentServed ==
  \A s \in Streams :
    LET r == stream[s] IN
    (r.id \in DOMAIN videos /\ r.range = None /\ Responded(r))
    => /\ r.status = 200
       /\ r.headers.content_length = PyStr(Len(RecordData(r)))
       /\ r.headers.content_range = None
       /\ \A i \in DOMAIN r.chunks :
            r.chunks[i] >= 1 /\ r.chunks[i] <= CHUNK_SIZE
       /\ r.body = SubSeq(RecordData(r), 1, Len(r.body))
       /\ r.pc = "done" => ~r.raised /\ r.body = RecordData(r)

C5_Witness ==
  \E s \in Streams :
    /\ stream[s].pc = "done"
    /\ stream[s].range = None
    /\ stream[s].status = 200
    /\ Len(stream[s].body) = 3
    /\ stream[s].chunks = <<2, 1>>

\* C6: an omitted start is 0, an omitted end is file_size-1, an end at or
\* beyond file_size is clamped to file_size-1; bytes=0- and bytes=500-2000 on
\* 1000 bytes give "bytes 0-999/1000" and "bytes 500-999/1000" with
\* Content-Length 1000 and 500.
C6_RangeDefaultsAndClamp ==
  /\ \A s \in Streams : \A st \in StartTexts, en \in EndTexts :
       LET r == stream[s] IN
       (/\ r.id \in DOMAIN videos
        /\ r.range = RangeHeader(st, en)
        /\ Responded(r))
       => /\ st = <<>> => r.start = 0
          /\ \A a \in 0..(MaxLen + 1) : st = PyStr(a) => r.start = a
          /\ en = <<>> => r.end = Len(RecordData(r)) - 1
          /\ \A b \in 0..(MaxLen + 10) :
               en = PyStr(b) =>
                 r.end = IF b >= Len(RecordData(r))
                         THEN Len(RecordData(r)) - 1 ELSE b
          /\ r.headers.content_range =
               <<"b", "y", "t", "e", "s", " ">> \o PyStr(r.start) \o <<"-">>
                 \o PyStr(r.end) \o <<"/">> \o PyStr(Len(RecordData(r)))
          /\ r.headers.content_length = PyStr(r.end - r.start + 1)
  /\ LET r == RangeResponse(<<"b", "y", "t", "e", "s", "=", "0", "-">>, 1000)
     IN /\ ~r.error
        /\ r.headers.content_range =
             <<"b", "y", "t", "e", "s", " ", "0", "-", "9", "9", "9", "/",
               "1", "0", "0", "0">>
        /\ r.headers.content_length = <<"1", "0", "0", "0">>
  /\ LET r == RangeResponse(<<"b", "y", "t", "e", "s", "=", "5", "0", "0",
                              "-", "2", "0", "0", "0">>, 1000)
     IN /\ ~r.error
        /\ r.headers.content_range =
             <<"b", "y", "t", "e", "s", " ", "5", "0", "0", "-", "9", "9",
               "9", "/", "1", "0", "0", "0">>
        /\ r.headers.content_length = <<"5", "0", "0">>

C6_Witness ==
  \E s \in Streams :
    /\ stream[s].pc = "done"
    /\ stream[s].range = RangeHeader(<<>>, PyStr(MaxLen + 10))
    /\ stream[s].file_size = 2
    /\ stream[s].start = 0
    /\ stream[s].end = 1
    /\ Len(stream[s].body) = 2

\* Range values of the form bytes=[start]-[end] with decimal start and end.
WellFormedRange(h) ==
  \E st \in {<<>>} \cup {PyStr(n) : n \in 0..(MaxLen + 10)},
     en \in {<<>>} \cup {PyStr(n) : n \in 0..(MaxLen + 10)} :
    h = RangeHeader(st, en)

\* C7: a Range value that is not of the form bytes=[start]-[end] is answered
\* as if there were none: 200 and the whole file, never an error.
C7_MalformedRangeFallsBack ==
  \A s \in Streams :
    LET r == stream[s] IN
    (/\ r.id \in DOMAIN videos
     /\ r.range # None
     /\ ~WellFormedRange(r.range)
     /\ r.pc = "done")
    => r.status = 200 /\ ~r.raised /\ r.body = RecordData(r)

\* C8: stream_video and get_video_thumbnail answer 404 for an absent record or
\* a missing file and never end in a server error, also when the file goes
\* away between the existence check and the read.
C8_MissingFileIsNotFound ==
  /\ \A s \in Streams :
       /\ ~stream[s].raised
       /\ stream[s].status # 500
       /\ (stream[s].pc = "done" /\ stream[s].id = FileUuid(1))
            => stream[s].status = 404
  /\ \A t \in ThumbReqs :
       /\ ~thumb[t].raised
       /\ thumb[t].status # 500
       /\ (thumb[t].pc = "done" /\ thumb[t].id = FileUuid(1))
            => thumb[t].status = 404

\* C9: an upload whose declared video type does not start with "video/" ends
\* with 400 and leaves nothing: no file, no row, no job.
C9_NonVideoRejectedWithoutTrace ==
  \A u \in Uploads :
    (/\ upload[u].pc # "idle"
     /\ upload[u].content_type # None
     /\ ~StartsWith(upload[u].content_type, <<"v", "i", "d", "e", "o", "/">>))
    => /\ upload[u].pc = "done"
       /\ upload[u].status = 400
       /\ ~upload[u].raised
       /\ NoTraceOf(u)

C9_Witness ==
  \E u \in Uploads :
    /\ upload[u].pc = "done"
    /\ upload[u].content_type = TextPlain
    /\ upload[u].status = 400

\* C10: an upload whose thumbnail is declared with a type that does not start
\* with "image/" ends with 400 before any write: no video file, no thumbnail
\* file, no row and no job come of it.
C10_NonImageThumbnailRejectedWithoutTrace ==
  \A u \in Uploads :
    (/\ upload[u].pc = "done"
     /\ StartsWith(upload[u].content_type, <<"v", "i", "d", "e", "o", "/">>)
     /\ upload[u].thumbnail_file.present
     /\ upload[u].thumbnail_file.content_type # None
     /\ ~StartsWith(upload[u].thumbnail_file.content_type,
                    <<"i", "m", "a", "g", "e", "/">>))
    => upload[u].status = 400 /\ NoTraceOf(u)

\* A file that holds all of what its writer had to write.
FullyWrittenVideo(f) ==
  /\ Exists(f)
  /\ Data(f) \in {UploadedVideo, Transcoded(UploadedVideo)}

FullyWrittenImage(f) ==
  /\ Exists(f)
  /\ Data(f) \in {UploadedImage, Frame(UploadedVideo),
                  Frame(Transcoded(UploadedVideo))}

\* C11: the video file and the thumbnail file are written completely before
\* the row is created: in every reachable state, also after the upload handler
\* was killed at any of its steps, the filename and the thumbnail_filename of
\* every row name files that are fully written.
C11_RecordNamesFullyWrittenFiles ==
  \A id \in DOMAIN videos :
    /\ FullyWrittenVideo(videos[id].filename)
    /\ videos[id].thumbnail_filename # NoFilename
         => FullyWrittenImage(videos[id].thumbnail_filename)

C11_Witness ==
  \E u \in Uploads :
    /\ upload[u].pc = "crashed"
    /\ RecordUuid(u) \in DOMAIN videos
    /\ videos[RecordUuid(u)].filename = upload[u].filename
    /\ videos[RecordUuid(u)].thumbnail_filename = upload[u].thumbnail_filename
    /\ upload[u].thumbnail_filename # NoFilename

\* The step in which upload request u returns with the given status.
Returns(u, status) ==
  /\ upload[u].status # status
  /\ upload'[u].status = status

\* A step that keeps to the order of upload_video: a 200 comes with one new
\* job for the generated filename and with the row committed, a new job comes
\* with the 200 of one upload, a 400 comes with no job.
EnqueueStep ==
  /\ \A u \in Uploads :
       Returns(u, 200)
       => /\ queue' = Append(queue, upload[u].filename)
          /\ RecordUuid(u) \in DOMAIN videos
          /\ videos[RecordUuid(u)].filename = upload[u].filename
  /\ Len(queue') > Len(queue)
       => \E u \in Uploads :
            /\ Returns(u, 200)
            /\ \A other \in Uploads \ {u} : upload'[other] = upload[other]
  /\ \A u \in Uploads : Returns(u, 400) => queue' = queue

\* C12: the step in which an upload returns 200 puts exactly one job, for the
\* generated filename, on the queue, and the row is committed by then; no
\* other step puts a job on the queue, and an upload that is rejected with
\* 400 puts none.
C12_OneJobPerSuccessfulUpload == [][EnqueueStep]_vars

C12_Witness ==
  \E u \in Uploads :
    /\ upload[u].pc = "done"
    /\ upload[u].status = 200
    /\ queue = <<upload[u].filename>>
    /\ RecordUuid(u) \in DOMAIN videos

\* Upload u left a committed row behind and failed to send its job.
EnqueueFailed(u) ==
  /\ upload[u].pc = "done"
  /\ upload[u].raised
  /\ RecordUuid(u) \in DOMAIN videos

\* process_video has been called for the video of upload u.
HandedToWorker(u) == upload[u].filename \in delivered

\* C13: when the enqueue fails after the row was committed, the video is
\* still handed to process_video at some later time, provided handlers and
\* workers that are up keep running.
C13_FailedEnqueueStillProcessed ==
  \A u \in Uploads : EnqueueFailed(u) ~> HandedToWorker(u)

\* The upload whose job process_video run w was given.
UploadOf(w) == CHOOSE u \in Uploads : upload[u].filename = worker[w].filename

\* Run w has ended at the failed transcode.
TranscodeFailed(w) ==
  /\ worker[w].pc = "idle"
  /\ worker[w].result = "transcode_failed"

\* C14: after a process_video run in which ffmpeg exited non-zero, the row
\* still has the filename and the thumbnail_filename the upload gave it, and
\* the input file is on disk with the whole uploaded content: what could be
\* streamed before the run can be streamed after it.
C14_FailedTranscodeLeavesVideo ==
  \A w \in Workers :
    TranscodeFailed(w)
    => LET u == UploadOf(w) IN
       /\ RecordUuid(u) \in DOMAIN videos
       /\ videos[RecordUuid(u)].filename = upload[u].filename
       /\ videos[RecordUuid(u)].thumbnail_filename
            = upload[u].thumbnail_filename
       /\ Exists(upload[u].filename)
       /\ Data(upload[u].filename) = UploadedVideo

C14_Witness ==
  \E w \in Workers :
    /\ TranscodeFailed(w)
    /\ Exists(worker[w].output_filename)
    /\ Exists(worker[w].filename)

\* C15: a run whose transcode failed is not reported as a success, and its
\* job is on the queue again for another attempt.
C15_FailedTranscodeIsRetried ==
  \A w \in Workers :
    TranscodeFailed(w)
    => /\ TaskState(worker[w]) # "SUCCESS"
       /\ \E i \in DOMAIN queue : queue[i] = worker[w].filename

\* Run w has ended by returning from the task function.
RunReturned(w) ==
  /\ worker[w].pc = "idle"
  /\ worker[w].result \in {"finished", "transcode_failed"}

\* C16: a process_video run that returns without having attempted the
\* thumbnail leaves no row of its video with thumbnail_filename unset,
\* whether its transcode succeeded, failed or was skipped.
C16_ThumbnailAlwaysAttempted ==
  \A w \in Workers :
    (RunReturned(w) /\ ~worker[w].thumbnail_attempted)
    => \A id \in SelectByFilename(worker[w].filename)
                 \cup SelectByFilename(worker[w].output_filename) :
         videos[id].thumbnail_filename # NoFilename

\* C17: after a process_video run whose transcode succeeded, the row of the
\* video is in the state Processed: its is_processed is true.
C17_ProcessedAfterTranscode ==
  \A w \in Workers :
    (/\ RunReturned(w)
     /\ worker[w].result = "finished"
     /\ ~EndsWithMp4(worker[w].filename))
    => \A id \in SelectByFilename(worker[w].output_filename) :
         videos[id].is_processed

\* The row has been switched to the output name of a transcode.
Switched(id) == EndsWithMp4(videos[id].filename)

\* No row that names an .mp4 file is given another filename.
KeepsSwitchedFilename ==
  \A id \in DOMAIN videos :
    Switched(id)
    => /\ id \in DOMAIN videos'
       /\ videos'[id].filename = videos[id].filename

\* Every row names a file that is there.
RecordFileExists == \A id \in DOMAIN videos : Exists(videos[id].filename)

\* C18: when the job of an upload is run again, after the run before it has
\* returned or its worker has died at any step, the row keeps the filename a
\* successful run gave it, and the file of that name exists, at every moment.
C18_ReplayKeepsOutcome == []RecordFileExists /\ [][KeepsSwitchedFilename]_vars

C18_Witness ==
  \E w \in Workers :
    /\ TranscodeFailed(w)
    /\ ~Exists(worker[w].filename)
    /\ SelectByFilename(worker[w].output_filename) # {}
    /\ Exists(worker[w].output_filename)

\* C19: while ffmpeg writes the transcoded output, no row names that file as
\* its filename, also in a run of a job that is delivered again after the row
\* was switched to the output name.
C19_OutputNeverRewritten ==
  \A w \in Workers :
    worker[w].pc = "ffmpeg_run"
    => SelectByFilename(worker[w].output_filename) = {}

\* The rows of the video that run w works on, under either of its names.
JobRows(w) ==
  SelectByFilename(worker[w].filename)
    \cup SelectByFilename(worker[w].output_filename)

\* A step of run w taken while no row of its video exists.
StepWithoutRecord(w) ==
  /\ worker[w].pc \notin {"idle", "crashed"}
  /\ worker'[w] # worker[w]
  /\ JobRows(w) = {}

\* Such a step leaves the upload directory, the files and the table as they
\* are and does not end the run with an exception.
DroppedWithoutEffect ==
  \A w \in Workers :
    StepWithoutRecord(w)
    => /\ dir' = dir
       /\ inodes' = inodes
       /\ videos' = videos
       /\ worker'[w].result # "raised"

\* C20: a process_video run whose video has no row any more, deleted before
\* or during the run, creates and deletes no file, modifies no row and does
\* not end with an error.
C20_DeletedVideoJobDropped == [][DroppedWithoutEffect]_vars

\* Nothing is under way for upload u: its handler has ended, no job waits and
\* no process_video run is in progress.
Quiet(u) ==
  /\ upload[u].pc \in {"done", "crashed"}
  /\ queue = <<>>
  /\ \A w \in Workers : worker[w].pc = "idle"

\* C21: once delete_video_by_id has answered 200 for a video and the
\* process_video run for it has ended, the row is gone and no file of the
\* video is left in the upload directory: not the file the row named, not the
\* thumbnail, not a transcoded output.
C21_DeleteLeavesNoFile ==
  \A d \in DelReqs, u \in Uploads :
    (/\ del[d].pc = "done"
     /\ del[d].status = 200
     /\ del[d].id = RecordUuid(u)
     /\ Quiet(u))
    => /\ RecordUuid(u) \notin DOMAIN videos
       /\ \A f \in DOMAIN dir : f.id # FileUuid(u)

\* A change of a row's thumbnail_filename is from unset to the frame that was
\* extracted, whole, from the row's video, and leaves the filename alone.
ThumbnailSetOnce ==
  \A id \in DOMAIN videos \cap DOMAIN videos' :
    videos'[id].thumbnail_filename # videos[id].thumbnail_filename
    => /\ videos[id].thumbnail_filename = NoFilename
       /\ videos'[id].thumbnail_filename
            = AutoThumbnailFilename(videos[id].filename)
       /\ Exists(videos'[id].thumbnail_filename)
       /\ Data(videos'[id].thumbnail_filename)
            = Frame(Data(videos[id].filename))
       /\ videos'[id].filename = videos[id].filename

\* A thumbnail that came with the upload stays, and a run that attempted the
\* extraction has returned normally with the row naming the run's video,
\* whether the extraction set the thumbnail or left it unset.
ThumbnailStepHarmless ==
  /\ \A u \in Uploads :
       (RecordUuid(u) \in DOMAIN videos
        /\ upload[u].thumbnail_filename # NoFilename)
       => videos[RecordUuid(u)].thumbnail_filename
            = upload[u].thumbnail_filename
  /\ \A w \in Workers :
       (worker[w].pc = "idle" /\ worker[w].thumbnail_attempted)
       => /\ TaskState(worker[w]) = "SUCCESS"
          /\ worker[w].result = "finished"
          /\ videos[worker[w].video].filename = worker[w].output_filename
          /\ videos[worker[w].video].thumbnail_filename
               \in {NoFilename,
                    AutoThumbnailFilename(worker[w].output_filename)}

\* C22: the thumbnail step of process_video sets thumbnail_filename only
\* where it was unset and the frame extraction succeeded; a thumbnail that
\* came with the upload is never replaced; a failed extraction leaves it
\* unset, the run returns normally and the filename is as it was.
C22_ThumbnailStep == []ThumbnailStepHarmless /\ [][ThumbnailSetOnce]_vars

C22_Witness ==
  \E w \in Workers :
    /\ worker[w].pc = "idle"
    /\ worker[w].thumbnail_attempted
    /\ videos[worker[w].video].thumbnail_filename = NoFilename
    /\ Exists(AutoThumbnailFilename(worker[w].output_filename))

\* The steps of process_video that belong to the transcode.
TranscodeSteps == {"ffmpeg", "ffmpeg_run", "commit", "unlink"}

\* C23: a process_video run whose input name ends in .mp4 never is in a step
\* of the transcode, also not when it died; the row keeps the input name as
\* its filename, the input file stays on disk with its content, and the file
\* the thumbnail step reads is the input file itself.
C23_Mp4InputUsedAsIs ==
  \A w \in Workers :
    worker[w].filename.ext = ".mp4"
    => /\ worker[w].pc \notin TranscodeSteps
       /\ worker[w].crashed_at \notin TranscodeSteps
       /\ worker[w].result # "transcode_failed"
       /\ worker[w].output_filename = worker[w].filename
       /\ videos[RecordUuid(UploadOf(w))].filename = worker[w].filename
       /\ Exists(worker[w].filename)
       /\ Data(worker[w].filename) = UploadedVideo

C23_Witness ==
  \E w \in Workers :
    /\ worker[w].filename.ext = ".mp4"
    /\ worker[w].pc = "thumbnail_commit"
    /\ Data(AutoThumbnailFilename(worker[w].filename))
         = Frame(Data(worker[w].filename))

\* C24: every 206 answer of stream_video declares a Content-Length that is
\* not negative and is the number of bytes delivered, for a range with
\* 0 <= start <= end < file_size; also for start beyond end, start at or
\* beyond the size of the file, and an empty file.
C24_RangeAnswerIsConsistent ==
  \A s \in Streams :
    (stream[s].pc = "done" /\ stream[s].status = 206)
    => /\ stream[s].content_length >= 0
       /\ stream[s].content_length = Len(stream[s].body)
       /\ 0 <= stream[s].start
       /\ stream[s].start <= stream[s].end
       /\ stream[s].end < stream[s].file_size

\* The step in which delete request d is answered with the given status.
Answers(d, status) ==
  /\ del[d].status # status
  /\ del'[d].status = status

\* A 403 is given for a row that exists, to a user who is neither its owner
\* nor a superuser, a 404 for an id without a row; both steps leave the table
\* and the upload directory as they are, the row's file included.
RefusalChangesNothing ==
  \A d \in DelReqs :
    /\ Answers(d, 403)
        => /\ del'[d].id \in DOMAIN videos'
           /\ videos[del'[d].id].owner_id # del'[d].user
           /\ del'[d].user \notin Superusers
           /\ Exists(videos[del'[d].id].filename)
    /\ Answers(d, 404) => del'[d].id \notin DOMAIN videos
    /\ (Answers(d, 403) \/ Answers(d, 404))
        => /\ videos' = videos
           /\ dir' = dir
           /\ inodes' = inodes

\* A delete request that went past the checks is by the owner of the video or
\* by a superuser.
OnlyOwnerOrSuperuserDeletes ==
  \A d \in DelReqs, u \in Uploads :
    (del[d].pc \in {"remove", "delete"} \/ del[d].status = 200)
      /\ del[d].id = RecordUuid(u)
    => del[d].user = upload[u].user \/ del[d].user \in Superusers

\* C25: delete_video_by_id answers a user who is neither the owner nor a
\* superuser with 403, and a call for an id without a row with 404; in both
\* cases nothing changes: the row and the file it names are as before.
C25_RefusedDeleteChangesNothing ==
  []OnlyOwnerOrSuperuserDeletes /\ [][RefusalChangesNothing]_vars

C25_Witness ==
  \E d \in DelReqs :
    /\ del[d].pc = "done"
    /\ del[d].status = 403
    /\ del[d].id \in DOMAIN videos
    /\ Exists(videos[del[d].id].filename)

====
